---- MODULE Spec2Model ----
(***************************************************************************)
(* Model of fuser's capability negotiator (KernelConfig, src/src/lib.rs)   *)
(* and of the single-occupancy dispatch adapter (FilesystemAdapter,        *)
(* src/src/filesystem.rs).                                                 *)
(*                                                                         *)
(* Build modelled: Linux, every abi-7-x feature enabled (abi-7-28 implies  *)
(* the lower ones), so INIT_FLAGS = FUSE_ASYNC_READ | FUSE_BIG_WRITES and  *)
(* set_time_granularity, set_max_background, set_congestion_threshold and  *)
(* max_pages all exist.                                                    *)
(*                                                                         *)
(* Integers: u32 values are kept below 2^31 in the input sets, so that the *)
(* arithmetic of the model is the arithmetic of the code on those inputs.  *)
(***************************************************************************)
EXTENDS Integers, Sequences, FiniteSets, TLC

VARIABLES
    kernel,     \* what the kernel reported in its INIT request
    cfg,        \* the KernelConfig record handed to init
    pre,        \* the record as it was before the last setter call
    call,       \* the last setter call: [op, arg, res, retry]
    ncalls,     \* number of setter calls the running init has made so far
    phase,      \* "Negotiating" while init runs, then "Frozen", "Serving" or "Aborted"
    reads,      \* what each kind of read returned first, since init returned
    lastSet,    \* the value of the last successful set_congestion_threshold
    left,       \* a record and the setter calls made on it, in call order
    right,      \* a second record and the same calls made on it, in any order
    borrow,     \* RefCell borrow flag of FilesystemAdapter.fs (0 unused, -1 writing)
    stack,      \* adapter calls that are inside the wrapped implementation
    delivered,  \* calls the dispatcher delivered to the adapter, in order
    observed,   \* calls the wrapped implementation received from the adapter
    forgets,    \* forget calls the wrapped implementation made on itself
    ev          \* the last adapter event

cfgVars == <<kernel, cfg, pre, call, ncalls, phase, reads, lastSet>>
adapterVars == <<borrow, stack, delivered, observed, forgets, ev>>
orderVars == <<left, right>>
vars == <<kernel, cfg, pre, call, ncalls, phase, reads, lastSet, left, right,
         borrow, stack, delivered, observed, forgets, ev>>

----------------------------------------------------------------------------
(* Bounds of the model *)

\* the init hook makes at most MaxCalls setter calls on the record
MaxCalls == 3
\* the dispatcher delivers at most MaxDelivered calls to the adapter
MaxDelivered == 2
\* at most MaxDepth calls into the adapter are attempted one inside another
MaxDepth == 2
\* setter calls in each of the two runs compared for their order
MaxOrdered == 2

----------------------------------------------------------------------------
(* Constants of the program *)

\* ll::fuse_abi::consts
FUSE_ASYNC_READ == 2^0
FUSE_BIG_WRITES == 2^5
FUSE_POSIX_LOCKS == 2^1
FUSE_MAX_PAGES == 2^22
\* session::MAX_WRITE_SIZE
MAX_WRITE_SIZE == 16 * 1024 * 1024
NANOS_PER_SEC == 1000 * 1000 * 1000
U16_MAX == 2^16 - 1
\* width of the u32 bitmasks capabilities and requested
U32_BITS == 32
\* page_size::get() on the modelled platform
PAGE_SIZE == 4096

----------------------------------------------------------------------------
(* Bit operations on u32 values below 2^31 *)

RECURSIVE BitAndN(_, _, _)
BitAndN(a, b, n) ==
    IF n = 0 \/ a = 0 \/ b = 0 THEN 0
    ELSE (a % 2) * (b % 2) + 2 * BitAndN(a \div 2, b \div 2, n - 1)

RECURSIVE BitOrN(_, _, _)
BitOrN(a, b, n) ==
    IF n = 0 \/ (a = 0 /\ b = 0) THEN 0
    ELSE (IF a % 2 = 1 \/ b % 2 = 1 THEN 1 ELSE 0)
         + 2 * BitOrN(a \div 2, b \div 2, n - 1)

\* a & b
BitAnd(a, b) == BitAndN(a, b, U32_BITS)
\* a | b
BitOr(a, b) == BitOrN(a, b, U32_BITS)

----------------------------------------------------------------------------
(* Result<T, E> and Option<T> *)

Ok(v) == [ok |-> TRUE, val |-> v]
Err(v) == [ok |-> FALSE, val |-> v]
None == [some |-> FALSE, value |-> 0]
Some(v) == [some |-> TRUE, value |-> v]
Unit == 0

(* std::time::Duration: whole seconds and sub-second nanoseconds *)
DurationNew(secs, nanos) ==
    [secs |-> secs + (nanos \div NANOS_PER_SEC), nanos |-> nanos % NANOS_PER_SEC]
as_secs(d) == d.secs
subsec_nanos(d) == d.nanos
as_nanos(d) == d.secs * NANOS_PER_SEC + d.nanos

----------------------------------------------------------------------------
(* KernelConfig *)

INIT_FLAGS == BitOr(FUSE_ASYNC_READ, FUSE_BIG_WRITES)

\* default flags asking for the page-count capability whether offered or not
default_init_flags_always(capabilities) == BitOr(INIT_FLAGS, FUSE_MAX_PAGES)

default_init_flags(capabilities) ==
    IF BitAnd(capabilities, FUSE_MAX_PAGES) # 0
    THEN BitOr(INIT_FLAGS, FUSE_MAX_PAGES)
    ELSE INIT_FLAGS

KernelConfigNew(capabilities, max_readahead) ==
    [capabilities |-> capabilities,
     requested |-> default_init_flags(capabilities),
     max_readahead |-> max_readahead,
     max_max_readahead |-> max_readahead,
     max_background |-> 16,
     congestion_threshold |-> None,
     max_write |-> MAX_WRITE_SIZE,
     time_gran |-> DurationNew(0, 1)]

\* TimeGranLoop returning the power of ten above the value instead of the one below
TimeGranLoopUpper(power_of_10, nanos) ==
    IF \E k \in 0 .. 9 : 10^k = nanos
    THEN Ok(Unit)
    ELSE Err(DurationNew(0, 10 * (CHOOSE p \in {10^k : k \in 0 .. 8} : p < nanos /\ nanos < 10 * p)))

\* the while loop of set_time_granularity: "ok" when it runs off its end,
\* otherwise the power of ten it returns in Err
RECURSIVE TimeGranLoop(_, _)
TimeGranLoop(power_of_10, nanos) ==
    IF power_of_10 < nanos
    THEN IF nanos < power_of_10 * 10
         THEN Err(DurationNew(0, power_of_10))
         ELSE TimeGranLoop(power_of_10 * 10, nanos)
    ELSE Ok(Unit)

\* set_time_granularity without the loop: any value up to a second is stored
set_time_granularity_storing(self, value) ==
    IF as_secs(value) = 0 /\ subsec_nanos(value) = 0
    THEN [cfg |-> self, res |-> Err(DurationNew(0, 1))]
    ELSE IF as_secs(value) > 1 \/ (as_secs(value) = 1 /\ subsec_nanos(value) > 0)
    THEN [cfg |-> self, res |-> Err(DurationNew(1, 0))]
    ELSE [cfg |-> [self EXCEPT !.time_gran = value],
          res |-> Ok(self.time_gran)]

\* set_time_granularity refusing every value of a second or more (>= for >)
set_time_granularity_strict(self, value) ==
    IF as_nanos(value) = 0
    THEN [cfg |-> self, res |-> Err(DurationNew(0, 1))]
    ELSE IF as_secs(value) >= 1
    THEN [cfg |-> self, res |-> Err(DurationNew(1, 0))]
    ELSE LET loop == TimeGranLoop(1, as_nanos(value)) IN
         IF ~loop.ok
         THEN [cfg |-> self, res |-> loop]
         ELSE [cfg |-> [self EXCEPT !.time_gran = value],
               res |-> Ok(self.time_gran)]

set_time_granularity(self, value) ==
    IF as_nanos(value) = 0
    THEN [cfg |-> self, res |-> Err(DurationNew(0, 1))]
    ELSE IF as_secs(value) > 1 \/ (as_secs(value) = 1 /\ subsec_nanos(value) > 0)
    THEN [cfg |-> self, res |-> Err(DurationNew(1, 0))]
    ELSE LET loop == TimeGranLoop(1, as_nanos(value)) IN
         IF ~loop.ok
         THEN [cfg |-> self, res |-> loop]
         ELSE [cfg |-> [self EXCEPT !.time_gran = value],
               res |-> Ok(self.time_gran)]

\* set_max_write without the test for zero
set_max_write_zero(self, value) ==
    IF value > MAX_WRITE_SIZE
    THEN [cfg |-> self, res |-> Err(MAX_WRITE_SIZE)]
    ELSE [cfg |-> [self EXCEPT !.max_write = value],
          res |-> Ok(self.max_write)]

\* set_max_write storing the clamped value when it reports it
set_max_write_clamping(self, value) ==
    IF value = 0
    THEN [cfg |-> [self EXCEPT !.max_write = 1], res |-> Err(1)]
    ELSE IF value > MAX_WRITE_SIZE
    THEN [cfg |-> [self EXCEPT !.max_write = MAX_WRITE_SIZE], res |-> Err(MAX_WRITE_SIZE)]
    ELSE [cfg |-> [self EXCEPT !.max_write = value],
          res |-> Ok(self.max_write)]

set_max_write(self, value) ==
    IF value = 0
    THEN [cfg |-> self, res |-> Err(1)]
    ELSE IF value > MAX_WRITE_SIZE
    THEN [cfg |-> self, res |-> Err(MAX_WRITE_SIZE)]
    ELSE [cfg |-> [self EXCEPT !.max_write = value],
          res |-> Ok(self.max_write)]

\* set_max_readahead moving the bound up with a value above it
set_max_readahead_raising(self, value) ==
    IF value = 0
    THEN [cfg |-> self, res |-> Err(1)]
    ELSE IF value > self.max_max_readahead
    THEN [cfg |-> [self EXCEPT !.max_max_readahead = value], res |-> Err(value)]
    ELSE [cfg |-> [self EXCEPT !.max_readahead = value],
          res |-> Ok(self.max_readahead)]

\* set_max_readahead comparing against the current value instead of the bound
set_max_readahead_current(self, value) ==
    IF value = 0
    THEN [cfg |-> self, res |-> Err(1)]
    ELSE IF value > self.max_readahead
    THEN [cfg |-> self, res |-> Err(self.max_readahead)]
    ELSE [cfg |-> [self EXCEPT !.max_readahead = value],
          res |-> Ok(self.max_readahead)]

set_max_readahead(self, value) ==
    IF value = 0
    THEN [cfg |-> self, res |-> Err(1)]
    ELSE IF value > self.max_max_readahead
    THEN [cfg |-> self, res |-> Err(self.max_max_readahead)]
    ELSE [cfg |-> [self EXCEPT !.max_readahead = value],
          res |-> Ok(self.max_readahead)]

\* add_capabilities assigning the bits (= for |=)
add_capabilities_replacing(self, capabilities_to_add) ==
    IF BitAnd(capabilities_to_add, self.capabilities) # capabilities_to_add
    THEN [cfg |-> self,
          res |-> Err(capabilities_to_add
                      - BitAnd(capabilities_to_add, self.capabilities))]
    ELSE [cfg |-> [self EXCEPT !.requested = capabilities_to_add],
          res |-> Ok(Unit)]

\* add_capabilities applying the offered part of the bits before it fails
add_capabilities_partial(self, capabilities_to_add) ==
    LET offered == BitAnd(capabilities_to_add, self.capabilities) IN
    IF offered # capabilities_to_add
    THEN [cfg |-> [self EXCEPT !.requested = BitOr(self.requested, offered)],
          res |-> Err(capabilities_to_add - offered)]
    ELSE [cfg |-> [self EXCEPT !.requested = BitOr(self.requested, capabilities_to_add)],
          res |-> Ok(Unit)]

add_capabilities(self, capabilities_to_add) ==
    IF BitAnd(capabilities_to_add, self.capabilities) # capabilities_to_add
    THEN [cfg |-> self,
          res |-> Err(capabilities_to_add
                      - BitAnd(capabilities_to_add, self.capabilities))]
    ELSE [cfg |-> [self EXCEPT !.requested = BitOr(self.requested, capabilities_to_add)],
          res |-> Ok(Unit)]

Min(a, b) == IF a < b THEN a ELSE b
Max(a, b) == IF a > b THEN a ELSE b

\* the default derived in u16: the multiplication by 3 wraps
congestion_threshold_u16(self) ==
    IF ~self.congestion_threshold.some
    THEN ((self.max_background * 3) % (U16_MAX + 1)) \div 4
    ELSE Min(self.congestion_threshold.value, self.max_background)

\* the stored threshold read without the clamp to max_background
congestion_threshold_unclamped(self) ==
    IF ~self.congestion_threshold.some
    THEN ((self.max_background * 3) \div 4) % (U16_MAX + 1)
    ELSE self.congestion_threshold.value

congestion_threshold(self) ==
    IF ~self.congestion_threshold.some
    THEN ((self.max_background * 3) \div 4) % (U16_MAX + 1)
    ELSE Min(self.congestion_threshold.value, self.max_background)

\* set_max_background forgetting the explicit threshold
set_max_background_resetting(self, value) ==
    IF value = 0
    THEN [cfg |-> self, res |-> Err(1)]
    ELSE [cfg |-> [self EXCEPT !.max_background = value, !.congestion_threshold = None],
          res |-> Ok(self.max_background)]

set_max_background(self, value) ==
    IF value = 0
    THEN [cfg |-> self, res |-> Err(1)]
    ELSE [cfg |-> [self EXCEPT !.max_background = value],
          res |-> Ok(self.max_background)]

\* a set_congestion_threshold that stores the value clamped to max_background
set_congestion_threshold_clamping(self, value) ==
    IF value = 0
    THEN [cfg |-> self, res |-> Err(1)]
    ELSE [cfg |-> [self EXCEPT !.congestion_threshold =
                       Some(Min(value, self.max_background))],
          res |-> Ok(congestion_threshold(self))]

\* set_congestion_threshold returning the stored value, not the effective one
set_congestion_threshold_stored(self, value) ==
    IF value = 0
    THEN [cfg |-> self, res |-> Err(1)]
    ELSE [cfg |-> [self EXCEPT !.congestion_threshold = Some(value)],
          res |-> Ok(self.congestion_threshold.value)]

set_congestion_threshold(self, value) ==
    IF value = 0
    THEN [cfg |-> self, res |-> Err(1)]
    ELSE [cfg |-> [self EXCEPT !.congestion_threshold = Some(value)],
          res |-> Ok(congestion_threshold(self))]

\* a panic of the calling thread, in place of a returned value
Panic == [ok |-> FALSE, val |-> 0]

\* max_pages: the quotient is cast to u16 (truncated) and one is added in
\* u16. The addition overflows when the cast quotient is u16::MAX: a build
\* with overflow checks panics there, a build without them wraps to 0.
max_pages(self, overflow_checks) ==
    LET quotient == (Max(self.max_write, self.max_readahead) - 1) \div PAGE_SIZE
        truncated == quotient % (U16_MAX + 1)
    IN  IF truncated + 1 > U16_MAX
        THEN IF overflow_checks THEN Panic ELSE Ok((truncated + 1) % (U16_MAX + 1))
        ELSE Ok(truncated + 1)

\* the plain fields of the record, as a reader of the record sees them
Fields(self) == self

ReadKinds == {"congestion_threshold", "max_pages", "fields"}

\* a read that stores the derived default threshold in the record
ReadOfStoring(kind, self, overflow_checks) ==
    IF kind = "congestion_threshold"
    THEN [cfg |-> [self EXCEPT !.congestion_threshold = Some(congestion_threshold(self))],
          res |-> Ok(congestion_threshold(self))]
    ELSE IF kind = "max_pages"
    THEN [cfg |-> self, res |-> max_pages(self, overflow_checks)]
    ELSE [cfg |-> self, res |-> Ok(Fields(self))]

\* a read through &self: the record after it, and the value read
ReadOf(kind, self, overflow_checks) ==
    IF kind = "congestion_threshold"
    THEN [cfg |-> self, res |-> Ok(congestion_threshold(self))]
    ELSE IF kind = "max_pages"
    THEN [cfg |-> self, res |-> max_pages(self, overflow_checks)]
    ELSE [cfg |-> self, res |-> Ok(Fields(self))]

----------------------------------------------------------------------------
(* Arguments tried by the init hook, and what the kernel reports *)

RECURSIVE SumOf(_)
SumOf(S) == IF S = {} THEN 0 ELSE LET x == CHOOSE y \in S : TRUE IN x + SumOf(S \ {x})

\* capability bitmasks the kernel offers
OfferedCaps ==
    {0,
     FUSE_ASYNC_READ + FUSE_POSIX_LOCKS,
     FUSE_MAX_PAGES,
     FUSE_ASYNC_READ + FUSE_POSIX_LOCKS + FUSE_BIG_WRITES + FUSE_MAX_PAGES}
\* capability bitmasks the init hook asks for
CapArgs ==
    {0, FUSE_ASYNC_READ, FUSE_POSIX_LOCKS, FUSE_BIG_WRITES, FUSE_MAX_PAGES,
     FUSE_POSIX_LOCKS + FUSE_BIG_WRITES,
     FUSE_POSIX_LOCKS + FUSE_MAX_PAGES,
     FUSE_ASYNC_READ + FUSE_POSIX_LOCKS + FUSE_BIG_WRITES + FUSE_MAX_PAGES}
\* readahead sizes the kernel reports (131072 = 32 pages, the usual default)
KernelReadahead == {0, 131072, 2^28}
ReadaheadArgs == {0, 1, 4096, 131072, 131073, 2^28}
WriteArgs == {0, 1, 4096, MAX_WRITE_SIZE, MAX_WRITE_SIZE + 1}
BackgroundArgs == {0, 1, 32, U16_MAX}
ThresholdArgs == {0, 1, 20, U16_MAX}
PowersOfTen == {10^k : k \in 0 .. 9}
TimeArgs ==
    {DurationNew(0, 0), DurationNew(1, 1), DurationNew(2, 0)}
    \cup {DurationNew(0, p) : p \in PowersOfTen}
    \cup {DurationNew(0, 5 * p) : p \in PowersOfTen \ {10^9}}
    \cup {DurationNew(0, 9), DurationNew(0, 150), DurationNew(0, 10^9 - 1)}

----------------------------------------------------------------------------
(* FilesystemAdapter: impl SharedFilesystem for FilesystemAdapter<FS> *)

\* the methods of the shared-access surface (Linux build, all abi features)
Ops ==
    {"init", "destroy", "lookup", "forget", "batch_forget", "getattr", "setattr",
     "readlink", "mknod", "mkdir", "unlink", "rmdir", "symlink", "rename", "link",
     "open", "read", "write", "flush", "release", "fsync", "opendir", "readdir",
     "readdirplus", "releasedir", "fsyncdir", "statfs", "setxattr", "getxattr",
     "listxattr", "removexattr", "access", "create", "getlk", "setlk", "bmap",
     "ioctl", "poll", "fallocate", "lseek", "copy_file_range"}

\* an adapter whose unlink forwards to rmdir
AdapterTargetSwapped(op) == IF op = "unlink" THEN "rmdir" ELSE op

\* the exclusive-access method each adapter method calls on the wrapped instance
AdapterTarget(op) ==
    CASE op = "init" -> "init"
      [] op = "destroy" -> "destroy"
      [] op = "lookup" -> "lookup"
      [] op = "forget" -> "forget"
      [] op = "batch_forget" -> "batch_forget"
      [] op = "getattr" -> "getattr"
      [] op = "setattr" -> "setattr"
      [] op = "readlink" -> "readlink"
      [] op = "mknod" -> "mknod"
      [] op = "mkdir" -> "mkdir"
      [] op = "unlink" -> "unlink"
      [] op = "rmdir" -> "rmdir"
      [] op = "symlink" -> "symlink"
      [] op = "rename" -> "rename"
      [] op = "link" -> "link"
      [] op = "open" -> "open"
      [] op = "read" -> "read"
      [] op = "write" -> "write"
      [] op = "flush" -> "flush"
      [] op = "release" -> "release"
      [] op = "fsync" -> "fsync"
      [] op = "opendir" -> "opendir"
      [] op = "readdir" -> "readdir"
      [] op = "readdirplus" -> "readdirplus"
      [] op = "releasedir" -> "releasedir"
      [] op = "fsyncdir" -> "fsyncdir"
      [] op = "statfs" -> "statfs"
      [] op = "setxattr" -> "setxattr"
      [] op = "getxattr" -> "getxattr"
      [] op = "listxattr" -> "listxattr"
      [] op = "removexattr" -> "removexattr"
      [] op = "access" -> "access"
      [] op = "create" -> "create"
      [] op = "getlk" -> "getlk"
      [] op = "setlk" -> "setlk"
      [] op = "bmap" -> "bmap"
      [] op = "ioctl" -> "ioctl"
      [] op = "poll" -> "poll"
      [] op = "fallocate" -> "fallocate"
      [] op = "lseek" -> "lseek"
      [] op = "copy_file_range" -> "copy_file_range"

\* the call the adapter method makes on the wrapped instance: the same-named
\* method with the arguments and the reply handle it was given
Forwarded(op, args, reply) ==
    [op |-> AdapterTarget(op), args |-> args, reply |-> reply]

\* what the adapter's init returns, given what the wrapped init returned
AdapterInitResult(inner) == inner

\* RefCell::borrow_mut succeeds iff the cell is unused; otherwise it panics
UNUSED == 0
\* a cell that hands out the reference without looking at the flag
BorrowMutUnchecked(flag) == TRUE
BorrowMutSucceeds(flag) == flag = UNUSED
\* the flag while the RefMut lives, and after the RefMut is dropped
BorrowMutFlag(flag) == flag - 1
\* a guard that is leaked instead of dropped
RefMutLeak(flag) == flag
RefMutDrop(flag) == flag + 1

\* node lists of a batch_forget request: [nodeid, nlookup] each
NodeA == [nodeid |-> 2, nlookup |-> 1]
NodeB == [nodeid |-> 3, nlookup |-> 2]
NodeLists == {<<>>, <<NodeA>>, <<NodeA, NodeB>>, <<NodeB, NodeA, NodeB>>}

\* arguments of a call: the node list for batch_forget, otherwise the
\* tuple of the method's argument values (one tuple per method is tried)
ArgsOf(op) ==
    IF op = "batch_forget" THEN NodeLists
    ELSE IF op = "destroy" THEN {<<>>}
    ELSE {<<"args", op>>}

\* the default init: Ok(()), the KernelConfig is not used
DefaultInit == Ok(Unit)

\* results the wrapped init may return: the default's Ok, or the Err with an
\* errno of an implementation that overrides init
InitResults == {DefaultInit, Err(5)}

\* defaults that reply EPERM where the others reply ENOSYS do so no more
DefaultReplyUniform(op) ==
    CASE op \in {"init", "destroy", "forget", "batch_forget"} ->
            [kind |-> "none", payload |-> <<>>]
      [] op \in {"open", "opendir"} -> [kind |-> "opened", payload |-> <<0, 0>>]
      [] op \in {"release", "releasedir"} -> [kind |-> "ok", payload |-> <<>>]
      [] op = "statfs" -> [kind |-> "statfs", payload |-> <<0, 0, 0, 0, 0, 512, 255, 0>>]
      [] OTHER -> [kind |-> "error", payload |-> <<"ENOSYS">>]

\* the reply call the default body of a trait method makes on its reply
\* handle ("none": the method has no reply handle, or makes no call on it)
DefaultReply(op) ==
    CASE op = "init" -> [kind |-> "none", payload |-> <<>>]
      [] op = "destroy" -> [kind |-> "none", payload |-> <<>>]
      [] op = "lookup" -> [kind |-> "error", payload |-> <<"ENOSYS">>]
      [] op = "forget" -> [kind |-> "none", payload |-> <<>>]
      [] op = "batch_forget" -> [kind |-> "none", payload |-> <<>>]
      [] op = "getattr" -> [kind |-> "error", payload |-> <<"ENOSYS">>]
      [] op = "setattr" -> [kind |-> "error", payload |-> <<"ENOSYS">>]
      [] op = "readlink" -> [kind |-> "error", payload |-> <<"ENOSYS">>]
      [] op = "mknod" -> [kind |-> "error", payload |-> <<"ENOSYS">>]
      [] op = "mkdir" -> [kind |-> "error", payload |-> <<"ENOSYS">>]
      [] op = "unlink" -> [kind |-> "error", payload |-> <<"ENOSYS">>]
      [] op = "rmdir" -> [kind |-> "error", payload |-> <<"ENOSYS">>]
      [] op = "symlink" -> [kind |-> "error", payload |-> <<"EPERM">>]
      [] op = "rename" -> [kind |-> "error", payload |-> <<"ENOSYS">>]
      [] op = "link" -> [kind |-> "error", payload |-> <<"EPERM">>]
      [] op = "open" -> [kind |-> "opened", payload |-> <<0, 0>>]
      [] op = "read" -> [kind |-> "error", payload |-> <<"ENOSYS">>]
      [] op = "write" -> [kind |-> "error", payload |-> <<"ENOSYS">>]
      [] op = "flush" -> [kind |-> "error", payload |-> <<"ENOSYS">>]
      [] op = "release" -> [kind |-> "ok", payload |-> <<>>]
      [] op = "fsync" -> [kind |-> "error", payload |-> <<"ENOSYS">>]
      [] op = "opendir" -> [kind |-> "opened", payload |-> <<0, 0>>]
      [] op = "readdir" -> [kind |-> "error", payload |-> <<"ENOSYS">>]
      [] op = "readdirplus" -> [kind |-> "error", payload |-> <<"ENOSYS">>]
      [] op = "releasedir" -> [kind |-> "ok", payload |-> <<>>]
      [] op = "fsyncdir" -> [kind |-> "error", payload |-> <<"ENOSYS">>]
      [] op = "statfs" -> [kind |-> "statfs", payload |-> <<0, 0, 0, 0, 0, 512, 255, 0>>]
      [] op = "setxattr" -> [kind |-> "error", payload |-> <<"ENOSYS">>]
      [] op = "getxattr" -> [kind |-> "error", payload |-> <<"ENOSYS">>]
      [] op = "listxattr" -> [kind |-> "error", payload |-> <<"ENOSYS">>]
      [] op = "removexattr" -> [kind |-> "error", payload |-> <<"ENOSYS">>]
      [] op = "access" -> [kind |-> "error", payload |-> <<"ENOSYS">>]
      [] op = "create" -> [kind |-> "error", payload |-> <<"ENOSYS">>]
      [] op = "getlk" -> [kind |-> "error", payload |-> <<"ENOSYS">>]
      [] op = "setlk" -> [kind |-> "error", payload |-> <<"ENOSYS">>]
      [] op = "bmap" -> [kind |-> "error", payload |-> <<"ENOSYS">>]
      [] op = "ioctl" -> [kind |-> "error", payload |-> <<"ENOSYS">>]
      [] op = "poll" -> [kind |-> "error", payload |-> <<"ENOSYS">>]
      [] op = "fallocate" -> [kind |-> "error", payload |-> <<"ENOSYS">>]
      [] op = "lseek" -> [kind |-> "error", payload |-> <<"ENOSYS">>]
      [] op = "copy_file_range" -> [kind |-> "error", payload |-> <<"ENOSYS">>]

\* a batch_forget that walks the node list from its end
NextForgetReversed(nodes, done) == nodes[Len(nodes) - done]
\* the node the loop of the default batch_forget visits after `done` nodes
NextForget(nodes, done) == nodes[done + 1]

Inside == Len(stack)

\* an adapter event, with the occupancy and the length of the observed log
\* before it, and for a return the wrapped method's and the adapter's result
\* and the calls the wrapped method made on its reply handle
Event(kind, inner, ret, replies) ==
    [kind |-> kind, inside |-> Inside, seen |-> Len(observed),
     inner |-> inner, ret |-> ret, replies |-> replies]

\* the calls the default body of `op` makes on the reply handle it is given
RepliesOf(op, reply) ==
    IF DefaultReply(op).kind = "none"
    THEN <<>>
    ELSE <<[reply |-> reply, outcome |-> DefaultReply(op)]>>

\* a call into the adapter method `op`: self.fs.borrow_mut().op(args.., reply)
AdapterCall(op, args, reply) ==
    IF BorrowMutSucceeds(borrow)
    THEN /\ borrow' = BorrowMutFlag(borrow)
         /\ stack' = Append(stack, [op |-> op, args |-> args, reply |-> reply, done |-> 0])
         /\ observed' = Append(observed, Forwarded(op, args, reply))
         /\ ev' = Event("enter", Unit, Unit, <<>>)
         /\ UNCHANGED forgets
    ELSE \* panic "already borrowed": the call never reaches the wrapped
         \* instance. The unwinding either is caught by the handler that made
         \* the call (catch_unwind) or drops every frame of the thread, and
         \* with them the RefMut of the call that holds the borrow.
         /\ \E caught \in BOOLEAN :
               IF caught
               THEN UNCHANGED <<borrow, stack>>
               ELSE /\ stack' = <<>>
                    /\ borrow' = RefMutDrop(borrow)
         /\ ev' = Event("panic", Unit, Unit, <<>>)
         /\ UNCHANGED <<observed, forgets>>

\* the dispatcher delivers a call while no call is in progress
Deliver ==
    /\ stack = <<>>
    /\ Len(delivered) < MaxDelivered
    /\ \E op \in Ops : \E args \in ArgsOf(op) :
          LET reply == Len(delivered) + 1 IN
          /\ delivered' = Append(delivered, [op |-> op, args |-> args, reply |-> reply])
          /\ AdapterCall(op, args, reply)
    /\ UNCHANGED cfgVars
    /\ UNCHANGED orderVars

\* a call into the adapter while another call is in progress (a handler that
\* calls back into the adapter, or a dispatcher that does not wait)
Reenter ==
    /\ stack # <<>>
    /\ Len(stack) < MaxDepth
    /\ \E op \in Ops : \E args \in ArgsOf(op) : AdapterCall(op, args, 0)
    /\ UNCHANGED delivered
    /\ UNCHANGED cfgVars
    /\ UNCHANGED orderVars

Top == stack[Len(stack)]

\* the default batch_forget of the wrapped instance calls its own forget for
\* the next node of the list
ForgetStep ==
    /\ stack # <<>>
    /\ Top.op = "batch_forget"
    /\ Top.done < Len(Top.args)
    /\ LET node == NextForget(Top.args, Top.done) IN
          forgets' = Append(forgets, [ino |-> node.nodeid, nlookup |-> node.nlookup,
                                      batch |-> Len(observed)])
    /\ stack' = [stack EXCEPT ![Len(stack)].done = @ + 1]
    /\ ev' = Event("forget", Unit, Unit, <<>>)
    /\ UNCHANGED <<borrow, delivered, observed>>
    /\ UNCHANGED cfgVars
    /\ UNCHANGED orderVars

\* the wrapped method, which is the trait's default body unless it is an
\* overriding init, makes its reply call and returns, and the adapter method
\* returns: the temporary RefMut is dropped at the end of the statement
Return ==
    /\ stack # <<>>
    /\ Top.op = "batch_forget" => Top.done = Len(Top.args)
    /\ \E inner \in (IF Top.op = "init" THEN InitResults ELSE {Ok(Unit)}) :
          ev' = Event("return", inner,
                      IF Top.op = "init" THEN AdapterInitResult(inner) ELSE inner,
                      RepliesOf(AdapterTarget(Top.op), Top.reply))
    /\ stack' = SubSeq(stack, 1, Len(stack) - 1)
    /\ borrow' = RefMutDrop(borrow)
    /\ UNCHANGED <<delivered, observed, forgets>>
    /\ UNCHANGED cfgVars
    /\ UNCHANGED orderVars

AdapterNext ==
    \/ Deliver
    \/ Reenter
    \/ ForgetStep
    \/ Return

----------------------------------------------------------------------------
(* The negotiation: KernelConfig::new, then the setters the init hook calls *)

NoCall == [op |-> "new", arg |-> Unit, res |-> Ok(Unit), retry |-> FALSE]

Idle ==
    /\ borrow = UNUSED
    /\ stack = <<>>
    /\ delivered = <<>>
    /\ observed = <<>>
    /\ forgets = <<>>
    /\ ev = [kind |-> "none", inside |-> 0, seen |-> 0, inner |-> Unit, ret |-> Unit,
             replies |-> <<>>]

\* nothing has been read from the record yet
NoReads == [kind \in ReadKinds |-> None]

\* the record as constructed for a mount, before init is called
Constructed ==
    /\ cfg = KernelConfigNew(kernel.capabilities, kernel.max_readahead)
    /\ pre = cfg
    /\ call = NoCall
    /\ ncalls = 0
    /\ phase = "Negotiating"
    /\ reads = NoReads
    /\ lastSet = None
    /\ left = [cfg |-> cfg, calls |-> <<>>]
    /\ right = left

AdapterInit ==
    /\ kernel = [capabilities |-> 0, max_readahead |-> 0]
    /\ Constructed
    /\ Idle

AdapterSpec == AdapterInit /\ [][AdapterNext]_vars

Init ==
    /\ kernel \in [capabilities : OfferedCaps, max_readahead : KernelReadahead]
    /\ Constructed
    /\ Idle

\* init holds the only &mut KernelConfig, for as long as it executes
InitExecutingOrReturned(ph) == ph \in {"Negotiating", "Frozen"}
InitExecuting(ph) == ph = "Negotiating"

\* a setter call made by the init hook
Apply(op, arg, out) ==
    /\ InitExecuting(phase)
    /\ ncalls < MaxCalls
    /\ ncalls' = ncalls + 1
    /\ pre' = cfg
    /\ cfg' = out.cfg
    /\ call' = [op |-> op, arg |-> arg, res |-> out.res,
                \* the argument is the value the previous call of the same
                \* setter returned in Err
                retry |-> call.op = op /\ ~call.res.ok /\ call.res.val = arg]
    /\ lastSet' = IF op = "set_congestion_threshold" /\ out.res.ok
                  THEN Some(arg) ELSE lastSet
    /\ UNCHANGED <<kernel, phase, reads>>
    /\ UNCHANGED adapterVars
    /\ UNCHANGED orderVars

AddCapabilities ==
    \E bits \in CapArgs : Apply("add_capabilities", bits, add_capabilities(cfg, bits))

SetTimeGranularity ==
    \E value \in TimeArgs :
        Apply("set_time_granularity", value, set_time_granularity(cfg, value))

SetMaxWrite ==
    \E value \in WriteArgs : Apply("set_max_write", value, set_max_write(cfg, value))

SetMaxReadahead ==
    \E value \in ReadaheadArgs :
        Apply("set_max_readahead", value, set_max_readahead(cfg, value))

SetMaxBackground ==
    \E value \in BackgroundArgs :
        Apply("set_max_background", value, set_max_background(cfg, value))

SetCongestionThreshold ==
    \E value \in ThresholdArgs :
        Apply("set_congestion_threshold", value, set_congestion_threshold(cfg, value))

\* init returns: Ok freezes the record for the INIT reply, Err aborts the mount
InitReturn ==
    /\ phase = "Negotiating"
    /\ \E result \in InitResults :
          /\ phase' = IF result.ok THEN "Frozen" ELSE "Aborted"
          /\ call' = [op |-> "init", arg |-> Unit, res |-> result, retry |-> FALSE]
    /\ pre' = cfg
    /\ ncalls' = 0
    /\ UNCHANGED <<kernel, cfg, reads, lastSet>>
    /\ UNCHANGED adapterVars
    /\ UNCHANGED orderVars

\* the frozen record is read to build the INIT reply, by a build with or
\* without overflow checks; a read that panics ends the session
Read ==
    /\ phase = "Frozen"
    /\ \E kind \in ReadKinds : \E overflow_checks \in BOOLEAN :
          LET out == ReadOf(kind, cfg, overflow_checks) IN
          /\ pre' = cfg
          /\ cfg' = out.cfg
          /\ call' = [op |-> kind, arg |-> Unit, res |-> out.res, retry |-> reads[kind].some]
          /\ reads' = IF reads[kind].some \/ out.res = Panic THEN reads
                      ELSE [reads EXCEPT ![kind] = Some(out.res)]
          /\ phase' = IF out.res = Panic THEN "Aborted" ELSE phase
    /\ UNCHANGED <<kernel, ncalls, lastSet>>
    /\ UNCHANGED adapterVars
    /\ UNCHANGED orderVars

\* the session starts dispatching the other operations
Dispatch ==
    /\ phase = "Frozen"
    /\ phase' = "Serving"
    /\ pre' = cfg
    /\ call' = [op |-> "dispatch", arg |-> Unit, res |-> Ok(Unit), retry |-> FALSE]
    /\ reads' = NoReads
    /\ UNCHANGED <<kernel, cfg, ncalls, lastSet>>
    /\ UNCHANGED adapterVars
    /\ UNCHANGED orderVars

Next ==
    \/ AddCapabilities
    \/ SetTimeGranularity
    \/ SetMaxWrite
    \/ SetMaxReadahead
    \/ SetMaxBackground
    \/ SetCongestionThreshold
    \/ InitReturn
    \/ Read
    \/ Dispatch

Spec == Init /\ [][Next]_vars

----------------------------------------------------------------------------
(* Two runs of the init hook making the same setter calls, at most one per
   setter, in different orders *)

SetterOps ==
    {"add_capabilities", "set_time_granularity", "set_max_write",
     "set_max_readahead", "set_max_background", "set_congestion_threshold"}

\* the setter call self.op(arg)
Setter(op, arg, self) ==
    CASE op = "add_capabilities" -> add_capabilities(self, arg)
      [] op = "set_time_granularity" -> set_time_granularity(self, arg)
      [] op = "set_max_write" -> set_max_write(self, arg)
      [] op = "set_max_readahead" -> set_max_readahead(self, arg)
      [] op = "set_max_background" -> set_max_background(self, arg)
      [] op = "set_congestion_threshold" -> set_congestion_threshold(self, arg)

\* the arguments tried for each setter: refused and accepted ones
OrderArgs(op) ==
    CASE op = "add_capabilities" -> {FUSE_POSIX_LOCKS, FUSE_MAX_PAGES}
      [] op = "set_time_granularity" -> {DurationNew(0, 1000), DurationNew(0, 5000)}
      [] op = "set_max_write" -> {4096, MAX_WRITE_SIZE + 1}
      [] op = "set_max_readahead" -> {4096, 131073}
      [] op = "set_max_background" -> {0, 1, 32}
      [] op = "set_congestion_threshold" -> {0, 20, U16_MAX}

\* the setters called in a sequence of calls
OpsOf(calls) == {calls[i].op : i \in 1 .. Len(calls)}

OrderInit ==
    /\ kernel \in [capabilities : OfferedCaps, max_readahead : KernelReadahead]
    /\ Constructed
    /\ Idle

\* the first run calls a setter it has not called yet
CallLeft ==
    /\ Len(left.calls) < MaxOrdered
    /\ \E op \in SetterOps \ OpsOf(left.calls) : \E arg \in OrderArgs(op) :
          LET out == Setter(op, arg, left.cfg) IN
          left' = [cfg |-> out.cfg,
                   calls |-> Append(left.calls,
                                    [op |-> op, arg |-> arg, ok |-> out.res.ok])]
    /\ UNCHANGED right
    /\ UNCHANGED <<cfgVars, adapterVars>>

\* the second run makes one of the first run's calls it has not made yet
CallRight ==
    /\ \E i \in 1 .. Len(left.calls) :
          /\ left.calls[i].op \notin OpsOf(right.calls)
          /\ LET c == left.calls[i]
                 out == Setter(c.op, c.arg, right.cfg)
             IN  right' = [cfg |-> out.cfg,
                           calls |-> Append(right.calls,
                                            [op |-> c.op, arg |-> c.arg,
                                             ok |-> out.res.ok])]
    /\ UNCHANGED left
    /\ UNCHANGED <<cfgVars, adapterVars>>

OrderNext ==
    \/ CallLeft
    \/ CallRight

OrderSpec == OrderInit /\ [][OrderNext]_vars

----------------------------------------------------------------------------
(* Properties of the adapter, checked under AdapterSpec *)

\* C2: at most one call is inside the wrapped implementation at any
\* instant, whatever calls are attempted while one is in progress.
C2_SingleOccupancy == Inside <= 1

\* a second call was attempted while one was inside, and was caught
C2_Witness ==
    /\ ev.kind = "panic"
    /\ Inside = 1
    /\ borrow = BorrowMutFlag(UNUSED)

\* C3: a call into the adapter panics exactly when another call is inside
\* the wrapped implementation; the refused call is not kept anywhere and the
\* wrapped implementation never sees it; calls that do not overlap never
\* fail; the forget calls the default batch_forget makes on the wrapped
\* instance run under the one borrow and do not fail.
C3_FailsFastIffOccupied ==
    /\ ev.kind = "panic" => ev.inside >= 1
    /\ ev.kind = "enter" => ev.inside = 0
    /\ ev.kind = "panic" => (Len(observed) = ev.seen /\ Inside <= ev.inside)
    /\ \A i \in 1 .. Len(observed) : observed[i].reply # 0
    /\ ev.kind = "forget" =>
          (Inside = ev.inside /\ Inside = 1 /\ borrow = BorrowMutFlag(UNUSED))

\* the second delivered call got in after the first returned, then a call
\* made while it was inside panicked and unwound it
C3_Witness ==
    /\ ev.kind = "panic"
    /\ ev.inside = 1
    /\ stack = <<>>
    /\ borrow = UNUSED
    /\ Len(observed) = 2

\* C4: every adapter method takes the borrow, calls the same-named method of
\* the wrapped instance once with the arguments and reply handle it was
\* given (init's result is returned unchanged) and releases the borrow on
\* return, so the wrapped implementation sees exactly the delivered calls in
\* delivery order.
C4_ForwardsUnchanged ==
    /\ observed = delivered
    /\ ev.kind = "enter" => (borrow = BorrowMutFlag(UNUSED) /\ Inside = 1)
    /\ ev.kind = "return" => (borrow = UNUSED /\ Inside = 0 /\ ev.ret = ev.inner)

\* two different operations were delivered and the second returned; the
\* first was init and the second a batch_forget
C4_Witness ==
    /\ Len(delivered) = 2
    /\ delivered[1].op = "init"
    /\ delivered[2].op = "batch_forget"
    /\ observed[2].args = <<NodeA, NodeB>>
    /\ ev.kind = "return"
    /\ stack = <<>>

----------------------------------------------------------------------------
(* Properties of the negotiation, checked under Spec *)

\* the bits set in a bitmask below 2^31, as a set of bit positions
BitsOf(x) == {k \in 0 .. (U32_BITS - 2) : (x \div (2^k)) % 2 = 1}
\* the bitmask with exactly the bits of S set
MaskOf(S) == SumOf({2^k : k \in S})
Nanos(d) == d.secs * (10^9) + d.nanos
Dist(a, b) == IF a < b THEN b - a ELSE a - b

\* C1: add_capabilities is all-or-nothing: when every bit of the argument is
\* offered it returns Ok and requested becomes old requested OR bits;
\* otherwise it returns Err(bits AND NOT capabilities) and the record is
\* unchanged.
C1_AddCapabilitiesAllOrNothing ==
    call.op = "add_capabilities" =>
        IF BitsOf(call.arg) \subseteq BitsOf(pre.capabilities)
        THEN /\ call.res = Ok(Unit)
             /\ cfg = [pre EXCEPT !.requested =
                           MaskOf(BitsOf(pre.requested) \cup BitsOf(call.arg))]
        ELSE /\ call.res = Err(MaskOf(BitsOf(call.arg) \ BitsOf(pre.capabilities)))
             /\ cfg = pre

\* a call that asked for an offered bit together with a bit not offered
C1_Witness ==
    /\ call.op = "add_capabilities"
    /\ ~call.res.ok
    /\ BitsOf(call.arg) \cap BitsOf(pre.capabilities) # {}
    /\ call.res.val = FUSE_BIG_WRITES

\* C5: set_time_granularity decides by value: 0ns gives Err(1ns); more than
\* 1s gives Err(1s); a value strictly between two consecutive powers of ten
\* nanoseconds gives Err(the lower one); an exact power of ten in [1ns, 1s]
\* gives Ok(previous time_gran) and sets time_gran. Every Err leaves the
\* record unchanged.
C5_SetTimeGranularityByValue ==
    call.op = "set_time_granularity" =>
        LET v == Nanos(call.arg) IN
        IF v = 0 THEN call.res = Err([secs |-> 0, nanos |-> 1]) /\ cfg = pre
        ELSE IF v > 10^9 THEN call.res = Err([secs |-> 1, nanos |-> 0]) /\ cfg = pre
        ELSE IF v \in PowersOfTen
        THEN /\ call.res = Ok(pre.time_gran)
             /\ cfg = [pre EXCEPT !.time_gran = call.arg]
        ELSE /\ \E k \in 0 .. 8 :
                  /\ 10^k < v
                  /\ v < 10^(k + 1)
                  /\ call.res = Err([secs |-> 0, nanos |-> 10^k])
             /\ cfg = pre

\* 150ns is refused with 100ns
C5_Witness ==
    /\ call.op = "set_time_granularity"
    /\ Nanos(call.arg) = 150
    /\ call.res = Err([secs |-> 0, nanos |-> 100])
    /\ cfg = pre

\* C6: a call of set_time_granularity with the value the call before it
\* returned in Err succeeds and sets time_gran to that value.
C6_TimeGranularityErrorValueSucceeds ==
    (call.op = "set_time_granularity" /\ call.retry) =>
        (call.res.ok /\ cfg.time_gran = call.arg)

\* a retry with a value that a non-power-of-ten argument was refused with
C6_Witness ==
    /\ call.op = "set_time_granularity"
    /\ call.retry
    /\ call.res.ok
    /\ Nanos(cfg.time_gran) = 100
    /\ Nanos(pre.time_gran) = 1

\* C7: when set_time_granularity fails, no accepted granularity (a power of
\* ten nanoseconds in [1ns, 1s]) is closer to the argument than the value
\* carried by the Err.
C7_TimeGranularityErrorIsNearest ==
    (call.op = "set_time_granularity" /\ ~call.res.ok) =>
        \A p \in PowersOfTen :
            Dist(Nanos(call.arg), Nanos(call.res.val)) <= Dist(Nanos(call.arg), p)

\* C8: set_max_write(0) gives Err(1); a value above MAX_WRITE_SIZE gives
\* Err(MAX_WRITE_SIZE); any other value gives Ok(previous max_write) and sets
\* max_write. On Err no field changes.
C8_SetMaxWrite ==
    call.op = "set_max_write" =>
        IF call.arg = 0 THEN call.res = Err(1) /\ cfg = pre
        ELSE IF call.arg > MAX_WRITE_SIZE
        THEN call.res = Err(MAX_WRITE_SIZE) /\ cfg = pre
        ELSE /\ call.res = Ok(pre.max_write)
             /\ cfg = [pre EXCEPT !.max_write = call.arg]

\* a value above the cap is refused with the cap, after max_write was lowered
C8_Witness ==
    /\ call.op = "set_max_write"
    /\ call.arg = MAX_WRITE_SIZE + 1
    /\ call.res = Err(MAX_WRITE_SIZE)
    /\ cfg.max_write = 4096

\* C9: set_max_readahead(0) gives Err(1); a value above the kernel-reported
\* max_readahead gives Err(that bound); any other value gives
\* Ok(previous max_readahead) and sets max_readahead. On Err no field
\* changes. The bound is the construction-time value, never the current
\* max_readahead.
C9_SetMaxReadahead ==
    call.op = "set_max_readahead" =>
        IF call.arg = 0 THEN call.res = Err(1) /\ cfg = pre
        ELSE IF call.arg > kernel.max_readahead
        THEN call.res = Err(kernel.max_readahead) /\ cfg = pre
        ELSE /\ call.res = Ok(pre.max_readahead)
             /\ cfg = [pre EXCEPT !.max_readahead = call.arg]

\* max_readahead was lowered and is raised again, up to the bound
C9_Witness ==
    /\ call.op = "set_max_readahead"
    /\ call.res.ok
    /\ pre.max_readahead < kernel.max_readahead
    /\ call.arg > pre.max_readahead
    /\ cfg.max_readahead = kernel.max_readahead

\* C10: for set_max_write, set_max_readahead, set_max_background and
\* set_congestion_threshold, a call with the value the call of the same
\* setter before it returned in Err succeeds.
C10_ErrorValueSucceeds ==
    (/\ call.op \in {"set_max_write", "set_max_readahead",
                     "set_max_background", "set_congestion_threshold"}
     /\ call.retry)
        => call.res.ok

\* C11: the effective congestion threshold congestion_threshold() reads is
\* floor(3 * max_background / 4) of the current max_background while
\* set_congestion_threshold has never succeeded, and otherwise the smaller of
\* the last value successfully set and the current max_background; it never
\* exceeds max_background.
C11_EffectiveCongestionThreshold ==
    LET eff == congestion_threshold(cfg)
        bg == cfg.max_background
    IN  /\ IF lastSet.some
           THEN eff = (IF lastSet.value < bg THEN lastSet.value ELSE bg)
           ELSE 4 * eff <= 3 * bg /\ 3 * bg < 4 * eff + 4
        /\ eff <= bg
        /\ call.op = "congestion_threshold" => call.res = Ok(eff)

\* with max_background 16, the threshold set to 20 is read as 16
C11_Witness ==
    /\ call.op = "congestion_threshold"
    /\ lastSet = Some(20)
    /\ cfg.max_background = 16
    /\ call.res = Ok(16)

\* the effective threshold of a record, by the rule of C11
EffectiveThreshold(c) ==
    IF c.congestion_threshold.some
    THEN IF c.congestion_threshold.value < c.max_background
         THEN c.congestion_threshold.value
         ELSE c.max_background
    ELSE (3 * c.max_background) \div 4

\* C12: set_congestion_threshold(0) returns Err(1) and changes nothing;
\* every n >= 1, also one above max_background, returns Ok(the effective
\* threshold as read immediately before the call) and stores n as the
\* explicit threshold.
C12_SetCongestionThreshold ==
    call.op = "set_congestion_threshold" =>
        IF call.arg = 0 THEN call.res = Err(1) /\ cfg = pre
        ELSE /\ call.res = Ok(EffectiveThreshold(pre))
             /\ cfg = [pre EXCEPT !.congestion_threshold = Some(call.arg)]

\* 20 is stored over a stored 65535 that read as 16, above max_background 16
C12_Witness ==
    /\ call.op = "set_congestion_threshold"
    /\ pre.congestion_threshold = Some(U16_MAX)
    /\ pre.max_background = 16
    /\ call.arg = 20
    /\ call.res = Ok(16)
    /\ cfg.congestion_threshold = Some(20)

\* C13: set_max_background(0) returns Err(1) and changes nothing; every
\* n >= 1 returns Ok(previous max_background) and sets max_background to n,
\* leaving the stored explicit congestion threshold, set or unset, untouched.
C13_SetMaxBackground ==
    call.op = "set_max_background" =>
        IF call.arg = 0 THEN call.res = Err(1) /\ cfg = pre
        ELSE /\ call.res = Ok(pre.max_background)
             /\ cfg = [pre EXCEPT !.max_background = call.arg]
             /\ cfg.congestion_threshold = pre.congestion_threshold

\* max_background is raised from 16 to 32 while a threshold of 20 is stored
C13_Witness ==
    /\ call.op = "set_max_background"
    /\ call.arg = 32
    /\ call.res = Ok(16)
    /\ pre.congestion_threshold = Some(20)
    /\ cfg.congestion_threshold = Some(20)
    /\ cfg.max_background = 32

\* C14: max_pages() returns the ceiling of max(max_write, max_readahead)
\* divided by the page size, with no wrap, truncation or overflow.
C14_MaxPagesIsCeiling ==
    call.op = "max_pages" =>
        LET m == IF cfg.max_write > cfg.max_readahead
                 THEN cfg.max_write ELSE cfg.max_readahead
        IN  /\ call.res.ok
            /\ call.res.val * PAGE_SIZE >= m
            /\ (call.res.val - 1) * PAGE_SIZE < m

\* C15: KernelConfig::new(capabilities, max_readahead) yields capabilities
\* as given, max_readahead and its bound equal to the given value,
\* max_background 16, no explicit congestion threshold, max_write
\* MAX_WRITE_SIZE, time_gran 1ns, and requested with the asynchronous-read
\* bit always, the large-write bit, and the page-count bit exactly when the
\* kernel offered it.
C15_ConstructionState ==
    call.op = "new" =>
        /\ cfg.capabilities = kernel.capabilities
        /\ cfg.max_readahead = kernel.max_readahead
        /\ cfg.max_max_readahead = kernel.max_readahead
        /\ cfg.max_background = 16
        /\ ~cfg.congestion_threshold.some
        /\ cfg.max_write = MAX_WRITE_SIZE
        /\ Nanos(cfg.time_gran) = 1
        /\ BitsOf(cfg.requested) =
              {0, 5} \cup (IF 22 \in BitsOf(kernel.capabilities) THEN {22} ELSE {})

\* the kernel offered the page-count capability and not asynchronous read
C15_Witness ==
    /\ call.op = "new"
    /\ kernel.capabilities = FUSE_MAX_PAGES
    /\ BitsOf(cfg.requested) = {0, 5, 22}

\* C16: the record is constructed once, before init runs; the other
\* operations are dispatched only after init has returned; the setters act
\* only while init is executing; once init has returned, with Ok or with
\* Err, no field of the record changes.
C16_Lifecycle ==
    /\ phase = "Negotiating"
    /\ call.op = "new"
    /\ cfg = KernelConfigNew(kernel.capabilities, kernel.max_readahead)
    /\ [][/\ kernel' = kernel
          /\ cfg' # cfg => (phase = "Negotiating" /\ phase' = "Negotiating")
          /\ phase # "Negotiating" => (cfg' = cfg /\ phase' # "Negotiating")
          /\ call'.op = "dispatch" => phase \in {"Frozen", "Serving"}
          /\ phase' = "Serving" => phase \in {"Frozen", "Serving"}
          /\ (phase = "Negotiating" /\ phase' # "Negotiating") =>
                (/\ call'.op = "init"
                 /\ phase' = (IF call'.res.ok THEN "Frozen" ELSE "Aborted"))
       ]_vars

\* init changed the record and returned Ok, and operations are dispatched
C16_Witness ==
    /\ phase = "Serving"
    /\ cfg # KernelConfigNew(kernel.capabilities, kernel.max_readahead)
    /\ cfg.max_background = 32

\* C17: a read of the record (congestion_threshold(), max_pages(), the
\* plain fields) never changes the record, and deriving the default
\* congestion threshold does not store it; with no setter call in between,
\* every read returns what the first read of its kind returned, whatever
\* the order of the reads.
C17_ReadsArePure ==
    call.op \in ReadKinds =>
        /\ cfg = pre
        /\ call.op = "congestion_threshold" =>
              cfg.congestion_threshold = pre.congestion_threshold
        /\ call.res.ok =>
              (reads[call.op].some /\ reads[call.op].value = call.res)

\* the default threshold is derived a second time, after the other reads
C17_Witness ==
    /\ call.op = "congestion_threshold"
    /\ call.retry
    /\ ~cfg.congestion_threshold.some
    /\ reads["max_pages"].some
    /\ reads["fields"].some
    /\ call.res = Ok(12)

\* C20: in every reachable state of the record time_gran is an exact power
\* of ten nanoseconds between 1ns and 1s inclusive.
C20_TimeGranIsPowerOfTen ==
    \E k \in 0 .. 9 : Nanos(cfg.time_gran) = 10^k

\* a refused call after an accepted one: time_gran stays 1000ns
C20_Witness ==
    /\ call.op = "set_time_granularity"
    /\ ~call.res.ok
    /\ Nanos(call.arg) = 5000
    /\ Nanos(cfg.time_gran) = 1000

----------------------------------------------------------------------------
(* Properties of the default implementation, checked under AdapterSpec *)

\* the call that has returned, at a return event
Returned == observed[Len(observed)]

\* the operations whose default replies ENOSYS
ReplyingENOSYS ==
    {"lookup", "getattr", "setattr", "readlink", "mknod", "mkdir", "unlink",
     "rmdir", "rename", "read", "write", "flush", "fsync", "readdir",
     "readdirplus", "fsyncdir", "setxattr", "getxattr", "listxattr",
     "removexattr", "access", "create", "getlk", "setlk", "bmap", "ioctl",
     "poll", "fallocate", "lseek", "copy_file_range"}

\* C18: every default makes exactly one call on its reply handle: symlink
\* and link error(EPERM); open and opendir opened(0, 0); release and
\* releasedir ok(); statfs (0, 0, 0, 0, 0, 512, 255, 0); the other replying
\* operations error(ENOSYS). init returns Ok and leaves the record as
\* constructed; destroy and forget do nothing and reply nothing.
C18_DefaultOutcomes ==
    /\ DefaultInit = Ok(Unit)
    /\ \A i \in 1 .. Len(forgets) : observed[forgets[i].batch].op = "batch_forget"
    /\ ev.kind = "return" =>
          LET op == Returned.op IN
          IF op \in {"init", "destroy", "forget", "batch_forget"}
          THEN /\ ev.replies = <<>>
               /\ cfg = KernelConfigNew(kernel.capabilities, kernel.max_readahead)
          ELSE /\ Len(ev.replies) = 1
               /\ ev.replies[1].reply = Returned.reply
               /\ LET out == ev.replies[1].outcome IN
                  IF op \in {"symlink", "link"}
                  THEN out.kind = "error" /\ out.payload = <<"EPERM">>
                  ELSE IF op \in {"open", "opendir"}
                  THEN out.kind = "opened" /\ out.payload = <<0, 0>>
                  ELSE IF op \in {"release", "releasedir"}
                  THEN out.kind = "ok" /\ out.payload = <<>>
                  ELSE IF op = "statfs"
                  THEN out.kind = "statfs" /\ out.payload = <<0, 0, 0, 0, 0, 512, 255, 0>>
                  ELSE /\ op \in ReplyingENOSYS
                       /\ out.kind = "error"
                       /\ out.payload = <<"ENOSYS">>

\* the default symlink replied, then the default statfs
C18_Witness ==
    /\ ev.kind = "return"
    /\ Len(observed) = 2
    /\ observed[1].op = "symlink"
    /\ Returned.op = "statfs"
    /\ ev.replies[1].outcome.kind = "statfs"

\* the forget calls made for the batch_forget that is the b-th observed call
ForgetsOf(b) ==
    LET OfBatch(f) == f.batch = b IN SelectSeq(forgets, OfBatch)

\* C19: the default batch_forget on a list of N nodes calls forget once per
\* node, with that node's nodeid and nlookup, in list order, N times in all
\* when it returns, and makes no reply.
C19_BatchForgetInOrder ==
    /\ \A b \in 1 .. Len(observed) :
          observed[b].op = "batch_forget" =>
              LET nodes == observed[b].args
                  fs == ForgetsOf(b)
              IN  /\ Len(fs) <= Len(nodes)
                  /\ \A i \in 1 .. Len(fs) :
                        /\ fs[i].ino = nodes[i].nodeid
                        /\ fs[i].nlookup = nodes[i].nlookup
    /\ (ev.kind = "return" /\ Returned.op = "batch_forget") =>
          /\ Len(ForgetsOf(Len(observed))) = Len(Returned.args)
          /\ ev.replies = <<>>

\* a batch of three nodes, one of them twice, has returned
C19_Witness ==
    /\ ev.kind = "return"
    /\ Returned.op = "batch_forget"
    /\ Returned.args = <<NodeB, NodeA, NodeB>>
    /\ Len(ForgetsOf(Len(observed))) = 3
    /\ ForgetsOf(Len(observed))[2].ino = NodeA.nodeid

----------------------------------------------------------------------------
(* Further properties of the negotiation, checked under Spec *)

\* C21: in every reachable state max_readahead is at most the upper bound
\* fixed at construction, and no operation changes the offered capabilities
\* or that upper bound.
C21_ReadaheadBoundAndCapabilitiesFixed ==
    /\ cfg.max_readahead <= cfg.max_max_readahead
    /\ cfg.capabilities = pre.capabilities
    /\ cfg.max_max_readahead = pre.max_max_readahead
    /\ cfg.capabilities = kernel.capabilities
    /\ cfg.max_max_readahead = kernel.max_readahead

\* max_readahead was lowered, and a value above the bound is then refused
C21_Witness ==
    /\ call.op = "set_max_readahead"
    /\ ~call.res.ok
    /\ call.arg > cfg.max_max_readahead
    /\ cfg.max_readahead = 4096
    /\ cfg.max_max_readahead = 131072

\* C22: in every reachable state 1 <= max_write <= MAX_WRITE_SIZE, so
\* max(max_write, max_readahead) is at least 1 also when the kernel reported
\* max_readahead = 0, and max(max_write, max_readahead) - 1 does not
\* underflow.
C22_MaxWriteInRange ==
    /\ 1 <= cfg.max_write
    /\ cfg.max_write <= MAX_WRITE_SIZE
    /\ (IF cfg.max_write > cfg.max_readahead
        THEN cfg.max_write ELSE cfg.max_readahead) - 1 >= 0

\* the kernel reported max_readahead 0, max_write was set to 1, and the page
\* budget is read as one page
C22_Witness ==
    /\ kernel.max_readahead = 0
    /\ cfg.max_write = 1
    /\ call.op = "max_pages"
    /\ call.res = Ok(1)

\* C23: no operation clears a bit of requested, and in every reachable state
\* each bit of requested is a bit of the construction-time default bitmask
\* or a bit of the offered capabilities.
C23_RequestedGrowsBounded ==
    LET req == BitsOf(cfg.requested)
        offered == BitsOf(kernel.capabilities)
        \* the default of the modelled build: asynchronous read and large
        \* writes, and the page count when offered
        default == {0, 5} \cup (offered \cap {22})
    IN  /\ cfg.requested # pre.requested =>
              (BitsOf(pre.requested) \subseteq req /\ call.op = "add_capabilities")
        /\ req \subseteq (default \cup offered)

\* an offered bit was added to a default that holds a bit not offered
C23_Witness ==
    /\ call.op = "add_capabilities"
    /\ call.res.ok
    /\ call.arg = FUSE_POSIX_LOCKS
    /\ BitsOf(pre.requested) = {0, 5}
    /\ BitsOf(cfg.requested) = {0, 1, 5}
    /\ 5 \notin BitsOf(kernel.capabilities)

\* C24 as stated: the effective congestion threshold is at least 1 in every
\* reachable state.
C24_ThresholdAtLeastOne ==
    congestion_threshold(cfg) >= 1

\* C24, amended: max_background is at least 1; the effective congestion
\* threshold is at least 1 exactly when an explicit threshold is stored or
\* max_background is at least 2 (derived from max_background 1 it is 0); the
\* derived value is the exact floor of 3 * max_background / 4 and fits 16
\* bits.
C24_ThresholdAtLeastOneUnlessDerivedFromOne ==
    LET eff == congestion_threshold(cfg)
        bg == cfg.max_background
    IN  /\ 1 <= bg
        /\ bg <= U16_MAX
        /\ (eff >= 1) <=> (cfg.congestion_threshold.some \/ bg >= 2)
        /\ eff >= 0
        /\ ~cfg.congestion_threshold.some =>
              (4 * eff <= 3 * bg /\ 3 * bg < 4 * eff + 4 /\ eff <= U16_MAX)
        /\ call.op = "congestion_threshold" => call.res = Ok(eff)

\* the default is derived from the largest max_background
C24_Witness ==
    /\ call.op = "congestion_threshold"
    /\ cfg.max_background = U16_MAX
    /\ ~cfg.congestion_threshold.some
    /\ call.res = Ok(49151)

----------------------------------------------------------------------------
(* Properties of the order of setter calls, checked under OrderSpec *)

\* the field of the record a setter assigns
FieldOf(op) ==
    CASE op = "add_capabilities" -> "requested"
      [] op = "set_time_granularity" -> "time_gran"
      [] op = "set_max_write" -> "max_write"
      [] op = "set_max_readahead" -> "max_readahead"
      [] op = "set_max_background" -> "max_background"
      [] op = "set_congestion_threshold" -> "congestion_threshold"

\* the fields assigned by the calls of a run that succeeded
Assigned(calls) == {FieldOf(calls[i].op) : i \in {j \in 1 .. Len(calls) : calls[j].ok}}

\* the calls of a run with their outcomes, whatever their order
CallSet(calls) == {calls[i] : i \in 1 .. Len(calls)}

\* every field no successful call of the run assigns is as constructed
OnlyOwnFields(run) ==
    LET new == KernelConfigNew(kernel.capabilities, kernel.max_readahead) IN
    \A f \in DOMAIN new : f \notin Assigned(run.calls) => run.cfg[f] = new[f]

\* C25: a successful setter call changes only its own field and a refused
\* one changes none; whether a call succeeds is the same wherever in the
\* order it is made; two orders of the same calls, at most one per setter,
\* end in the same record, the same effective congestion threshold and the
\* same page budget.
C25_SetterOrderIrrelevant ==
    /\ OnlyOwnFields(left)
    /\ OnlyOwnFields(right)
    /\ CallSet(right.calls) \subseteq CallSet(left.calls)
    /\ Len(right.calls) = Len(left.calls) =>
          /\ right.cfg = left.cfg
          /\ congestion_threshold(right.cfg) = congestion_threshold(left.cfg)
          /\ \A overflow_checks \in BOOLEAN :
                max_pages(right.cfg, overflow_checks)
                    = max_pages(left.cfg, overflow_checks)

\* set_congestion_threshold(20) then set_max_background(32) in one run, the
\* other way round in the other: both read the threshold as 20
C25_Witness ==
    /\ Len(left.calls) = 2
    /\ Len(right.calls) = 2
    /\ left.calls[1] = [op |-> "set_congestion_threshold", arg |-> 20, ok |-> TRUE]
    /\ left.calls[2] = [op |-> "set_max_background", arg |-> 32, ok |-> TRUE]
    /\ right.calls[1] = left.calls[2]
    /\ right.calls[2] = left.calls[1]
    /\ congestion_threshold(right.cfg) = 20

====
